---- MODULE Spec2Model ----
(***************************************************************************)
(* Model of src/server.py (sales-analysis-mcp): the tool get_profit_change, *)
(* the helper fetch_data with its pool and connection, and the SQL query    *)
(* built by get_profit_change_by_segment, evaluated over a small            *)
(* sales_data table.                                                        *)
(*                                                                          *)
(* Strings that the code inspects character by character (the time values   *)
(* and the three time columns) are sequences of one-character strings.      *)
(* A nullable number of sales_data is <<>> (NULL) or <<n>>.                 *)
(* percent_profit_change, a numeric with two decimals, is kept as the       *)
(* integer number of hundredths (66.67 is 6667).                            *)
(***************************************************************************)
EXTENDS Integers, Sequences, FiniteSets

VARIABLES
    pc,            \* position of the call
    call,          \* the arguments the caller supplied
    time_column,   \* the local time_column of get_profit_change / fetch_data's args
    table,         \* the rows of sales_data
    pool,          \* "none" | "open" | "closed"
    conn,          \* "none" | "acquired" | "released"
    poolsCreated,  \* number of asyncpg.create_pool calls that returned a pool
    acquires,      \* number of connections acquired
    queries,       \* the parameters <<$1, $2, $3>> of every conn.fetch issued
    err,           \* the exception the call ended with, "none" if none
    rows,          \* what conn.fetch returned
    result,        \* what the call returned
    matched        \* outcome of one evaluation of the CASE WHEN condition

vars == <<pc, call, time_column, table, pool, conn, poolsCreated, acquires,
          queries, err, rows, result, matched>>

-----------------------------------------------------------------------------
(* Bounds of the model *)

MaxTimeValues == 3
MaxRows == 3
MaxLimit == 2
MaxStrLen == 3
MaxProfitRows == 2

(* limit: int = 10 *)
DefaultLimit == 10

-----------------------------------------------------------------------------
(* Strings *)

Alphabet == {"2", "3", "/", "Q", "H", "_", "%"}

RECURSIVE StringsUpTo(_)
StringsUpTo(n) ==
    IF n = 0 THEN {<<>>}
    ELSE LET shorter == StringsUpTo(n - 1)
         IN  shorter \cup {Append(s, c) : s \in {x \in shorter : Len(x) = n - 1}, c \in Alphabet}

(* Python's  ch in s ; SQL's  position(ch IN s) <> 0 *)
Contains(s, ch) == \E i \in 1..Len(s) : s[i] = ch

StartsWith(s, prefix) ==
    /\ Len(prefix) <= Len(s)
    /\ SubSeq(s, 1, Len(prefix)) = prefix

(* SQL's  s LIKE p : % matches any run of characters, _ any one character *)
RECURSIVE Like(_, _)
Like(s, p) ==
    IF p = <<>> THEN s = <<>>
    ELSE IF Head(p) = "%"
         THEN Like(s, Tail(p)) \/ (s # <<>> /\ Like(Tail(s), p))
    ELSE IF Head(p) = "_"
         THEN s # <<>> /\ Like(Tail(s), Tail(p))
    ELSE s # <<>> /\ Head(s) = Head(p) /\ Like(Tail(s), Tail(p))

Abs(x) == IF x < 0 THEN -x ELSE x

Min(a, b) == IF a <= b THEN a ELSE b

RECURSIVE SeqSum(_)
SeqSum(s) == IF s = <<>> THEN 0 ELSE Head(s) + SeqSum(Tail(s))

-----------------------------------------------------------------------------
(* The query of get_profit_change_by_segment *)

ProfitTypes == {"middle_man", "seller", "overall"}

TimeColumns == {"ym", "yq", "yh"}

(* COALESCE(x, 0) *)
Coalesce0(x) == IF x = <<>> THEN 0 ELSE x[1]

MiddleManExpr(sd) ==
    Coalesce0(sd.mid_man_qty)
        * (Coalesce0(sd.mid_man_unit_price_jpy) - Coalesce0(sd.maker_unit_price_jpy))

SellerExpr(sd) ==
    Coalesce0(sd.seller_qty)
        * (Coalesce0(sd.seller_unit_price_jpy) - Coalesce0(sd.mid_man_unit_price_jpy))

(* a copy-and-paste slip in the "overall" entry: both terms use mid_man_qty *)
ProfitExprOverallSlip(profit_type, sd) ==
    IF profit_type = "middle_man" THEN MiddleManExpr(sd)
    ELSE IF profit_type = "seller" THEN SellerExpr(sd)
    ELSE Coalesce0(sd.mid_man_qty)
            * (Coalesce0(sd.mid_man_unit_price_jpy) - Coalesce0(sd.maker_unit_price_jpy))
         + Coalesce0(sd.mid_man_qty)
            * (Coalesce0(sd.seller_unit_price_jpy) - Coalesce0(sd.mid_man_unit_price_jpy))

(* profit_expressions[profit_type], evaluated on one row *)
ProfitExpr(profit_type, sd) ==
    IF profit_type = "middle_man" THEN
        Coalesce0(sd.mid_man_qty)
            * (Coalesce0(sd.mid_man_unit_price_jpy) - Coalesce0(sd.maker_unit_price_jpy))
    ELSE IF profit_type = "seller" THEN
        Coalesce0(sd.seller_qty)
            * (Coalesce0(sd.seller_unit_price_jpy) - Coalesce0(sd.mid_man_unit_price_jpy))
    ELSE
        Coalesce0(sd.mid_man_qty)
            * (Coalesce0(sd.mid_man_unit_price_jpy) - Coalesce0(sd.maker_unit_price_jpy))
        + Coalesce0(sd.seller_qty)
            * (Coalesce0(sd.seller_unit_price_jpy) - Coalesce0(sd.mid_man_unit_price_jpy))

(* the CASE WHEN condition of one SUM, for target t ($1 or $2) *)
CaseWhen(sd, tc, t) ==
    \/ (tc = "ym" /\ sd.ym = t)
    \/ (tc = "yq" /\ sd.yq = t)
    \/ (tc = "yh" /\ sd.yh = t)
    \/ (tc = "ym" /\ ~Contains(t, "/") /\ Like(sd.ym, t \o <<"%">>))
    \/ (tc = "yq" /\ ~Contains(t, "Q") /\ Like(sd.yq, t \o <<"%">>))
    \/ (tc = "yh" /\ ~Contains(t, "H") /\ Like(sd.yh, t \o <<"%">>))

(* the value of the GROUP BY columns on one row *)
GroupKey(sd, group_by) == [j \in 1..Len(group_by) |-> sd[group_by[j]]]

GroupKeys(tbl, group_by) == {GroupKey(tbl[i], group_by) : i \in 1..Len(tbl)}

(* SUM(CASE WHEN ... THEN profit_expr ELSE 0 END) over the rows of one group *)
SumProfit(tbl, profit_type, tc, t, group_by, key) ==
    SeqSum([i \in 1..Len(tbl) |->
        IF GroupKey(tbl[i], group_by) = key /\ CaseWhen(tbl[i], tc, t)
        THEN ProfitExpr(profit_type, tbl[i]) ELSE 0])

(* the CTE calc: one row per group *)
Calc(tbl, profit_type, tc, t1, t2, group_by) ==
    {[key |-> k,
      profit_t1_jpy |-> SumProfit(tbl, profit_type, tc, t1, group_by, k),
      profit_t2_jpy |-> SumProfit(tbl, profit_type, tc, t2, group_by, k)]
        : k \in GroupKeys(tbl, group_by)}

ProfitChange(c) == c.profit_t2_jpy - c.profit_t1_jpy

RECURSIVE SetSum(_)
SetSum(S) ==
    IF S = {} THEN 0
    ELSE LET c == CHOOSE x \in S : TRUE
         IN  ProfitChange(c) + SetSum(S \ {c})

(* SUM(profit_t2_jpy - profit_t1_jpy) OVER (): over every row of calc *)
TotalProfitChange(calc) == SetSum(calc)

(* ROUND(x, 2) of a numeric rounds half away from zero; num / den * 100 in hundredths *)
RoundedPercent(num, den) ==
    LET q == (2 * Abs(num) * 10000 + den) \div (2 * den)
    IN  IF num < 0 THEN -q ELSE q

PercentProfitChange(profit_change, total_profit_change) ==
    IF total_profit_change = 0 THEN 0
    ELSE RoundedPercent(profit_change, Abs(total_profit_change))

(* the final SELECT list, for one row of final *)
Select(c, total) ==
    [key |-> c.key,
     profit_t1_jpy |-> c.profit_t1_jpy,
     profit_t2_jpy |-> c.profit_t2_jpy,
     profit_change |-> ProfitChange(c),
     percent_profit_change |-> PercentProfitChange(ProfitChange(c), total)]

(* ORDER BY profit_change DESC, the ABS forgotten *)
OrderedBySigned(s) ==
    \A i, j \in 1..Len(s) : i < j => s[i].profit_change >= s[j].profit_change

(* ORDER BY ABS(profit_change) DESC *)
OrderedBy(s) ==
    \A i, j \in 1..Len(s) : i < j => Abs(s[i].profit_change) >= Abs(s[j].profit_change)

(* every order the data store may return the selected rows in; rows with equal *)
(* ABS(profit_change) come in any order *)
Orderings(S) ==
    LET n == Cardinality(S)
    IN  {s \in [1..n -> S] : (\A i, j \in 1..n : i # j => s[i] # s[j]) /\ OrderedBy(s)}

(* LIMIT that lets one row too many through *)
LimitOffByOne(s, limit) == SubSeq(s, 1, Min(limit + 1, Len(s)))

(* LIMIT {limit} *)
Limit(s, limit) == SubSeq(s, 1, Min(limit, Len(s)))

(* the total taken over the rows that survive the LIMIT *)
QueryResultsTotalAfterLimit(tbl, profit_type, tc, t1, t2, group_by, limit) ==
    LET calc == Calc(tbl, profit_type, tc, t1, t2, group_by)
        zero == {Select(c, 0) : c \in calc}
    IN  {[i \in DOMAIN s |->
            [s[i] EXCEPT !.percent_profit_change =
                PercentProfitChange(s[i].profit_change,
                    SeqSum([j \in DOMAIN s |-> s[j].profit_change]))]]
            : s \in {Limit(o, limit) : o \in Orderings(zero)}}

(* every result conn.fetch(sql, t1, t2, time_column) may return *)
QueryResults(tbl, profit_type, tc, t1, t2, group_by, limit) ==
    LET calc == Calc(tbl, profit_type, tc, t1, t2, group_by)
        final == {Select(c, TotalProfitChange(calc)) : c \in calc}
    IN  {Limit(s, limit) : s \in Orderings(final)}

-----------------------------------------------------------------------------
(* get_profit_change: the time column is inferred from time_values[0] *)

(* an inference that keeps the caller's time_column *)
KeepCallerTimeColumn(time_values, caller_time_column) == caller_time_column

InferTimeColumn(time_values, caller_time_column) ==
    IF Contains(time_values[1], "Q") THEN "yq"
    ELSE IF Contains(time_values[1], "H") THEN "yh"
    ELSE "ym"

-----------------------------------------------------------------------------
(* The inputs the model draws *)

DefaultGroupBy == <<"bu", "product", "customer">>

BuValues == <<"A", "B">>
ProductValues == <<"x", "y">>
YearValues == <<"2", "3">>

(* the three time columns of a row of year y *)
TimeFields(y) == [ym |-> <<y, "/", "2">>, yq |-> <<y, "Q", "2">>, yh |-> <<y, "H", "2">>]

Row(bu, product, y, mq, mp, kp, sq, sp) ==
    [bu |-> bu, product |-> product, customer |-> "k",
     ym |-> TimeFields(y).ym, yq |-> TimeFields(y).yq, yh |-> TimeFields(y).yh,
     mid_man_qty |-> mq, mid_man_unit_price_jpy |-> mp, maker_unit_price_jpy |-> kp,
     seller_qty |-> sq, seller_unit_price_jpy |-> sp]

Bit(i, k) == (i \div k) % 2

(* rows for the ranking: 2 business units, 2 products, 2 years, 2 price profiles *)
QRowIds == 0..15
QRow(i) ==
    IF Bit(i, 8) = 0
    THEN Row(BuValues[Bit(i, 1) + 1], ProductValues[Bit(i, 2) + 1], YearValues[Bit(i, 4) + 1],
             <<2>>, <<3>>, <<1>>, <<1>>, <<5>>)
    ELSE Row(BuValues[Bit(i, 1) + 1], ProductValues[Bit(i, 2) + 1], YearValues[Bit(i, 4) + 1],
             <<1>>, <<1>>, <<4>>, <<>>, <<2>>)

(* rows for the profit expressions: every quantity and price NULL or not, 2 years *)
PRowIds == 0..63
Nullable(i, k, v) == IF Bit(i, k) = 0 THEN <<>> ELSE <<v>>
PRow(i) ==
    Row("A", "x", YearValues[Bit(i, 32) + 1],
        Nullable(i, 1, 2), Nullable(i, 2, 3), Nullable(i, 4, 1),
        Nullable(i, 8, 5), Nullable(i, 16, 7))

(* a table is a bag of rows: one sequence stands for all its reorderings *)
IdBags(ids, n) ==
    {s \in UNION {[1..k -> ids] : k \in 0..n} :
        \A i \in 1..Len(s) - 1 : s[i] <= s[i + 1]}

QTables == {[i \in DOMAIN s |-> QRow(s[i])] : s \in IdBags(QRowIds, MaxRows)}

PTables == {[i \in DOMAIN s |-> PRow(s[i])] : s \in IdBags(PRowIds, MaxProfitRows)}

SampleTable == <<QRow(0), QRow(5), QRow(14)>>

(* rows for the time matching: the three time columns vary independently *)
MatchRows ==
    {[TimeFields("2") EXCEPT !.ym = TimeFields(a).ym, !.yq = TimeFields(b).yq,
                             !.yh = TimeFields(c).yh]
        : a \in {"2", "3"}, b \in {"2", "3"}, c \in {"2", "3"}}

(* time values of the calls: a bare year, a quarter, a half, both letters *)
TimeSamples == {<<"2">>, <<"3">>, <<"2", "Q", "2">>, <<"2", "H", "2">>, <<"H", "Q">>}

TimeValueLists == UNION {[1..n -> TimeSamples] : n \in 0..MaxTimeValues}

(* the periods the ranking is asked for *)
QueryPeriods == {<<"ym", <<"2">>, <<"3">>>>, <<"yq", <<"2", "Q", "2">>, <<"3", "Q", "2">>>>}

Calls ==
    [entry : {"get_profit_change", "fetch_data"},
     profit_type : ProfitTypes \cup {"margin"},
     time_column : TimeColumns,
     time_values : TimeValueLists,
     group_by : {DefaultGroupBy},
     limit : {DefaultLimit}]

-----------------------------------------------------------------------------
(* One call of the tool get_profit_change, or of fetch_data *)

Init ==
    /\ call \in Calls
    /\ pc = IF call.entry = "get_profit_change" THEN "infer" ELSE "create_pool"
    /\ time_column = call.time_column
    /\ table = SampleTable
    /\ pool = "none"
    /\ conn = "none"
    /\ poolsCreated = 0
    /\ acquires = 0
    /\ queries = <<>>
    /\ err = "none"
    /\ rows = <<>>
    /\ result = <<>>
    /\ matched = <<>>

(* get_profit_change, lines 160-167: time_values[0] raises on an empty list *)
Infer ==
    /\ pc = "infer"
    /\ \/ /\ Len(call.time_values) = 0
          /\ err' = "IndexError"
          /\ pc' = "failed"
          /\ UNCHANGED time_column
       \/ /\ Len(call.time_values) > 0
          /\ time_column' = InferTimeColumn(call.time_values, time_column)
          /\ pc' = "create_pool"
          /\ UNCHANGED err
    /\ UNCHANGED <<call, table, pool, conn, poolsCreated, acquires, queries, rows,
                   result, matched>>

(* fetch_data, lines 15-21: the data store answers or the connection fails *)
CreatePool ==
    /\ pc = "create_pool"
    /\ \/ /\ pool' = "open"
          /\ poolsCreated' = poolsCreated + 1
          /\ pc' = "acquire"
          /\ UNCHANGED err
       \/ /\ err' = "ConnectionError"
          /\ pc' = "failed"
          /\ UNCHANGED <<pool, poolsCreated>>
    /\ UNCHANGED <<call, time_column, table, conn, acquires, queries, rows, result,
                   matched>>

(* fetch_data, line 23: entering  async with pool.acquire() as conn ; the pool  *)
(* was created with its connections established and hands one out             *)
Acquire ==
    /\ pc = "acquire"
    /\ conn' = "acquired"
    /\ acquires' = acquires + 1
    /\ pc' = "assert"
    /\ UNCHANGED <<call, time_column, table, pool, poolsCreated, queries, err, rows,
                   result, matched>>

(* get_profit_change_by_segment, lines 49-50 *)
AssertTwoValues ==
    /\ pc = "assert"
    /\ \/ /\ Len(call.time_values) = 2
          /\ pc' = "build_sql"
          /\ UNCHANGED err
       \/ /\ Len(call.time_values) # 2
          /\ err' = "AssertionError"
          /\ pc' = "unwind"
    /\ UNCHANGED <<call, time_column, table, pool, conn, poolsCreated, acquires,
                   queries, rows, result, matched>>

(* get_profit_change_by_segment, lines 52-130: profit_expressions[profit_type] *)
BuildSql ==
    /\ pc = "build_sql"
    /\ \/ /\ call.profit_type \in ProfitTypes
          /\ pc' = "fetch"
          /\ UNCHANGED err
       \/ /\ call.profit_type \notin ProfitTypes
          /\ err' = "KeyError"
          /\ pc' = "unwind"
    /\ UNCHANGED <<call, time_column, table, pool, conn, poolsCreated, acquires,
                   queries, rows, result, matched>>

(* get_profit_change_by_segment, line 132: the one conn.fetch *)
Fetch ==
    /\ pc = "fetch"
    /\ queries' = Append(queries, <<call.time_values[1], call.time_values[2], time_column>>)
    /\ \/ /\ rows' \in QueryResults(table, call.profit_type, time_column,
                                    call.time_values[1], call.time_values[2],
                                    call.group_by, call.limit)
          /\ pc' = "exit_with"
          /\ UNCHANGED err
       \/ /\ err' = "PostgresError"
          /\ pc' = "unwind"
          /\ UNCHANGED rows
    /\ UNCHANGED <<call, time_column, table, pool, conn, poolsCreated, acquires,
                   result, matched>>

(* fetch_data, lines 23-24: the async with block is left normally *)
ExitWith ==
    /\ pc = "exit_with"
    /\ conn' = "released"
    /\ pc' = "close_pool"
    /\ UNCHANGED <<call, time_column, table, pool, poolsCreated, acquires, queries,
                   err, rows, result, matched>>

(* fetch_data, lines 23-24: the async with block is left by an exception, which *)
(* then leaves fetch_data and its caller *)
UnwindWith ==
    /\ pc = "unwind"
    /\ conn' = "released"
    /\ pc' = "failed"
    /\ UNCHANGED <<call, time_column, table, pool, poolsCreated, acquires, queries,
                   err, rows, result, matched>>

(* fetch_data, line 27 *)
ClosePool ==
    /\ pc = "close_pool"
    /\ pool' = "closed"
    /\ pc' = "return"
    /\ UNCHANGED <<call, time_column, table, conn, poolsCreated, acquires, queries,
                   err, rows, result, matched>>

(* fetch_data, line 28, and get_profit_change, lines 167-169 *)
Return ==
    /\ pc = "return"
    /\ result' = rows
    /\ pc' = "done"
    /\ UNCHANGED <<call, time_column, table, pool, conn, poolsCreated, acquires,
                   queries, err, rows, matched>>

Next ==
    \/ Infer
    \/ CreatePool
    \/ Acquire
    \/ AssertTwoValues
    \/ BuildSql
    \/ Fetch
    \/ ExitWith
    \/ UnwindWith
    \/ ClosePool
    \/ Return

Spec == Init /\ [][Next]_vars

Finished == pc \in {"done", "failed"}

-----------------------------------------------------------------------------
(* The query on its own: a call that has acquired its connection, over every   *)
(* small table                                                                 *)

GroupBys == {DefaultGroupBy, <<"bu">>}

(* fetch_data, lines 24-28, as one step: the query, the exit from the async    *)
(* with block, pool.close() and the return; or the data store's error          *)
RunQuery ==
    /\ pc = "assert"
    /\ Len(call.time_values) = 2
    /\ call.profit_type \in ProfitTypes
    /\ queries' = Append(queries, <<call.time_values[1], call.time_values[2], time_column>>)
    /\ conn' = "released"
    /\ \/ /\ rows' \in QueryResults(table, call.profit_type, time_column,
                                    call.time_values[1], call.time_values[2],
                                    call.group_by, call.limit)
          /\ result' = rows'
          /\ pool' = "closed"
          /\ pc' = "done"
          /\ UNCHANGED err
       \/ /\ err' = "PostgresError"
          /\ pc' = "failed"
          /\ UNCHANGED <<rows, result, pool>>
    /\ UNCHANGED <<call, time_column, table, poolsCreated, acquires, matched>>

Acquired ==
    /\ pc = "assert"
    /\ pool = "open"
    /\ conn = "acquired"
    /\ poolsCreated = 1
    /\ acquires = 1
    /\ queries = <<>>
    /\ err = "none"
    /\ rows = <<>>
    /\ result = <<>>
    /\ matched = <<>>

InitQuery ==
    /\ table \in QTables
    /\ \E p \in QueryPeriods :
          /\ time_column = p[1]
          /\ call \in [entry : {"fetch_data"},
                       profit_type : ProfitTypes,
                       time_column : {p[1]},
                       time_values : {<<p[2], p[3]>>},
                       group_by : GroupBys,
                       limit : 1..MaxLimit]
    /\ Acquired

NextQuery == RunQuery

SpecQuery == InitQuery /\ [][NextQuery]_vars

InitProfit ==
    /\ table \in PTables
    /\ time_column = "ym"
    /\ call \in [entry : {"fetch_data"},
                 profit_type : ProfitTypes,
                 time_column : {"ym"},
                 time_values : {<<<<"2">>, <<"3">>>>},
                 group_by : {<<"bu">>, <<"ym">>},
                 limit : {DefaultLimit}]
    /\ Acquired

NextProfit == RunQuery

SpecProfit == InitProfit /\ [][NextProfit]_vars

-----------------------------------------------------------------------------
(* The CASE WHEN condition on its own: one row, every short target string *)

InitMatch ==
    /\ table \in {<<sd>> : sd \in MatchRows}
    /\ time_column \in TimeColumns
    /\ \E t \in StringsUpTo(MaxStrLen), u \in {<<"3">>, <<"2", "/", "2">>} :
          call \in [entry : {"fetch_data"},
                    profit_type : {"overall"},
                    time_column : {time_column},
                    time_values : {<<t, u>>, <<u, t>>},
                    group_by : {DefaultGroupBy},
                    limit : {DefaultLimit}]
    /\ pc = "fetch"
    /\ pool = "open"
    /\ conn = "acquired"
    /\ poolsCreated = 1
    /\ acquires = 1
    /\ queries = <<>>
    /\ err = "none"
    /\ rows = <<>>
    /\ result = <<>>
    /\ matched = <<>>

(* the data store evaluates both CASE WHEN conditions on the row *)
EvalCaseWhen ==
    /\ pc = "fetch"
    /\ matched' = <<CaseWhen(table[1], time_column, call.time_values[1]),
                    CaseWhen(table[1], time_column, call.time_values[2])>>
    /\ pc' = "matched"
    /\ UNCHANGED <<call, time_column, table, pool, conn, poolsCreated, acquires,
                   queries, err, rows, result>>

NextMatch == EvalCaseWhen

SpecMatch == InitMatch /\ [][NextMatch]_vars

-----------------------------------------------------------------------------
(* Claims about the call (Spec) *)

InvalidCall ==
    \/ Len(call.time_values) # 2
    \/ call.profit_type \notin ProfitTypes

(* C1: a call whose time_values has not exactly two elements, or whose          *)
(* profit_type is none of the three, fails before any I/O: no pool has been     *)
(* created and no connection acquired.                                          *)
C1_ValidationBeforeIO ==
    InvalidCall => (poolsCreated = 0 /\ acquires = 0)

(* C2: get_profit_change with a time_values of any length other than 2 fails    *)
(* with an assertion/validation error and issues no query.                      *)
C2_BadLengthAssertionNoQuery ==
    (call.entry = "get_profit_change" /\ Len(call.time_values) # 2 /\ Finished)
        => (pc = "failed" /\ err = "AssertionError" /\ queries = <<>>)

(* C3: a call that acquired a connection issued exactly one query on it and     *)
(* released it, whichever way the call ended.                                   *)
C3_OneQueryAndRelease ==
    (Finished /\ acquires >= 1) => (Len(queries) = 1 /\ conn = "released")

(* C8: in get_profit_change the time column handed to the query is yq if        *)
(* time_values[0] contains Q, else yh if it contains H, else ym, whatever the   *)
(* caller's time_column and whatever time_values[1].                            *)
C8_ColumnFromFirstValue ==
    (call.entry = "get_profit_change" /\ Len(call.time_values) > 0 /\ pc # "infer") =>
        LET first == call.time_values[1]
            hasQ == \E i \in DOMAIN first : first[i] = "Q"
            hasH == \E i \in DOMAIN first : first[i] = "H"
            expected == IF hasQ THEN "yq" ELSE IF hasH THEN "yh" ELSE "ym"
        IN  /\ time_column = expected
            /\ \A k \in DOMAIN queries :
                  queries[k] = <<call.time_values[1], call.time_values[2], expected>>

(* a query was issued on ym although the caller asked for yh and the second     *)
(* value names a quarter *)
C8_Witness ==
    /\ call.entry = "get_profit_change"
    /\ Len(queries) = 1
    /\ queries[1][3] = "ym"
    /\ call.time_column = "yh"
    /\ Contains(call.time_values[2], "Q")

(* C10: when the call has ended, by return or by exception, no pool it created  *)
(* is left open.                                                                *)
C10_PoolClosedAtExit ==
    Finished => pool # "open"

-----------------------------------------------------------------------------
(* Claims about the result of the query (SpecQuery) *)

DistinctKeys ==
    {[j \in DOMAIN call.group_by |-> table[i][call.group_by[j]]] : i \in DOMAIN table}

(* C4: a successful call returns at most limit records, namely                  *)
(* min(limit, number of distinct grouping-key combinations) of them.            *)
C4_LengthIsMinLimitGroups ==
    pc = "done" =>
        /\ Len(result) <= call.limit
        /\ Len(result) = (IF call.limit <= Cardinality(DistinctKeys)
                          THEN call.limit ELSE Cardinality(DistinctKeys))

(* the limit cut groups off *)
C4_Witness ==
    /\ pc = "done"
    /\ Cardinality(DistinctKeys) > call.limit
    /\ Len(result) = call.limit
    /\ call.limit > 1

AllGroups ==
    Calc(table, call.profit_type, time_column, call.time_values[1], call.time_values[2],
         call.group_by)

Omitted == {c \in AllGroups : \A i \in DOMAIN result : result[i].key # c.key}

TableChange ==
    SeqSum([i \in DOMAIN table |->
        (IF CaseWhen(table[i], time_column, call.time_values[2])
         THEN ProfitExpr(call.profit_type, table[i]) ELSE 0)
        - (IF CaseWhen(table[i], time_column, call.time_values[1])
           THEN ProfitExpr(call.profit_type, table[i]) ELSE 0)])

(* C6: percent_profit_change is profit_change over |total_profit_change| in     *)
(* percent, rounded to two decimals, where total_profit_change sums the change  *)
(* of every group, returned or not; when that total is 0 every record has 0.    *)
C6_TotalOverAllGroups ==
    pc = "done" =>
        \A i \in DOMAIN result :
            LET r == result[i]
                t == Abs(TableChange)
            IN  IF TableChange = 0
                THEN r.percent_profit_change = 0
                ELSE /\ 2 * t * r.percent_profit_change - 20000 * r.profit_change <= t
                     /\ 20000 * r.profit_change - 2 * t * r.percent_profit_change <= t

(* two groups whose changes cancel: both report 0 *)
C6_Witness ==
    /\ pc = "done"
    /\ Len(result) = 2
    /\ TableChange = 0
    /\ result[1].profit_change = -result[2].profit_change
    /\ result[1].profit_change # 0
    /\ result[1].percent_profit_change = 0
    /\ result[2].percent_profit_change = 0

(* the limit left a group out whose change counts in the total *)
C6_WitnessTruncated ==
    /\ pc = "done"
    /\ Omitted # {}
    /\ TableChange # 0
    /\ TableChange # SeqSum([i \in DOMAIN result |-> result[i].profit_change])

-----------------------------------------------------------------------------
(* Claims about the time matching (SpecMatch) *)

Delimiter(tc) == IF tc = "ym" THEN "/" ELSE IF tc = "yq" THEN "Q" ELSE "H"

(* what C7 says: equal, or no delimiter in t and the value starts with t *)
ContributesAsStated(sd, tc, t) ==
    \/ sd[tc] = t
    \/ (~Contains(t, Delimiter(tc)) /\ StartsWith(sd[tc], t))

(* C7: under granularity c a row counts for target t exactly if its value in    *)
(* column c equals t, or t has none of c's delimiter and the value starts       *)
(* with t.                                                                      *)
C7_ExactOrPrefix ==
    pc = "matched" =>
        \A k \in 1..2 :
            matched[k] = ContributesAsStated(table[1], time_column, call.time_values[k])

-----------------------------------------------------------------------------
(* Claims about the profit expressions (SpecProfit) *)

ResultsFor(profit_type) ==
    QueryResults(table, profit_type, time_column, call.time_values[1],
                 call.time_values[2], call.group_by, call.limit)

(* C9: on every row overall = middle_man + seller, NULLs counting as 0, and     *)
(* so the overall profit returned for a group and period is the sum of the      *)
(* middle_man and the seller profit returned for it.                            *)
C9_OverallIsSum ==
    /\ \A i \in DOMAIN table :
          ProfitExpr("overall", table[i])
              = ProfitExpr("middle_man", table[i]) + ProfitExpr("seller", table[i])
    /\ (pc = "done" /\ call.profit_type = "overall") =>
          \A i \in DOMAIN result :
              \A m \in ResultsFor("middle_man"), s \in ResultsFor("seller") :
                  \A j \in DOMAIN m, k \in DOMAIN s :
                      (m[j].key = result[i].key /\ s[k].key = result[i].key) =>
                          /\ result[i].profit_t1_jpy = m[j].profit_t1_jpy + s[k].profit_t1_jpy
                          /\ result[i].profit_t2_jpy = m[j].profit_t2_jpy + s[k].profit_t2_jpy

(* an overall profit made of a middle_man part and a seller part, both not 0,   *)
(* summed over two rows of which one has a NULL price *)
C9_Witness ==
    /\ pc = "done"
    /\ call.profit_type = "overall"
    /\ Len(table) = 2
    /\ \E i \in DOMAIN table : table[i].maker_unit_price_jpy = <<>>
    /\ \E i \in DOMAIN result :
          /\ result[i].profit_t1_jpy # 0
          /\ \E m \in ResultsFor("middle_man"), s \in ResultsFor("seller") :
                \E j \in DOMAIN m, k \in DOMAIN s :
                    /\ m[j].key = result[i].key
                    /\ s[k].key = result[i].key
                    /\ m[j].profit_t1_jpy # 0
                    /\ s[k].profit_t1_jpy # 0

-----------------------------------------------------------------------------
(* What the code does guarantee where C1, C2, C3, C7 and C10 fail *)

(* an invalid call never issues a query *)
InvalidCallIssuesNoQuery == InvalidCall => queries = <<>>

(* at most one query per call, exactly one once validation has passed, and the  *)
(* connection is released at every exit                                         *)
AtMostOneQueryAndRelease ==
    /\ Len(queries) <= 1
    /\ (Finished /\ acquires >= 1) => conn = "released"
    /\ (Finished /\ acquires >= 1 /\ ~InvalidCall) => Len(queries) = 1

(* the pool is closed when the call returns, and left open when it raises       *)
(* after the pool was created                                                   *)
PoolClosedOnReturnOnly ==
    /\ pc = "done" => pool = "closed"
    /\ (pc = "failed" /\ poolsCreated > 0) => pool = "open"

(* the stated matching rule holds for targets without the LIKE wildcards *)
ExactOrPrefixWithoutWildcards ==
    pc = "matched" =>
        \A k \in 1..2 :
            (~Contains(call.time_values[k], "%") /\ ~Contains(call.time_values[k], "_")) =>
                matched[k] = ContributesAsStated(table[1], time_column, call.time_values[k])

====
